---------------------------- MODULE Spec2Model ----------------------------
(***************************************************************************)
(* A model of ipu_example (src/src/main.cpp): command-line parsing, device *)
(* acquisition with the IPUModel fallback, graph construction (tensors,    *)
(* vertices, tile mapping), the five programs and their execution by       *)
(* the engine, and the validation of the output buffer.                    *)
(*                                                                         *)
(* Strings are sequences of one-character strings.  Values of C++ type     *)
(* unsigned are records [hi, lo] of two 16-bit limbs, so that the wrap of  *)
(* a negative int to unsigned is kept.                                     *)
(***************************************************************************)
EXTENDS Integers, Sequences, FiniteSets, TLC

VARIABLES
    pc,                 \* position of main()
    argv,               \* argv[1..argc-1], each a sequence of characters
    num_ipus,           \* unsigned num_ipus
    num_tiles_per_ipu,  \* unsigned num_tiles_per_ipu
    hwDevices,          \* setIpuDevice's local list: attach() result of each device
    device,             \* poplar::Device device
    num_workers,        \* const unsigned num_workers
    num_tiles,          \* const unsigned num_tiles
    num_workers_total,  \* const unsigned num_workers_total
    graph,              \* poplar::Graph: tensor shapes, vertices, streams
    programs,           \* std::vector<poplar::program::Program> programs
    buffer_in,          \* std::vector<int> buffer_in
    buffer_out,         \* std::vector<int> buffer_out
    engine,             \* poplar::Engine: compiled/loaded/connected, device memory
    out,                \* lines written to std::cout / std::cerr
    status              \* exit status of the process

vars == <<pc, argv, num_ipus, num_tiles_per_ipu, hwDevices, device, num_workers,
          num_tiles, num_workers_total, graph, programs, buffer_in, buffer_out,
          engine, out, status>>

---------------------------------------------------------------------------
(* Bounds of the model *)

\* longest argument string built from Alphabet
MaxArgLen == 2
\* most hardware devices the device manager returns
MaxDevices == 2
\* most worker contexts per tile the target reports
MaxWorkers == 6

\* characters the enumerated argument strings are built from
Alphabet == {"0", "-", "x"}

---------------------------------------------------------------------------
(* Program constants *)

\* hardcoded upper limit of the number of IPUs
MaxIpus == 4
\* hardcoded upper limit of the number of tiles per IPU; also the number of
\* tiles of each IPU of the device the program is designed for
MaxTilesPerIpu == 1472
TilesPerIPU == 1472
\* the constant tensors five and ten
Five == 5
Ten == 10
\* number of columns of tensor1
NumColumns == 20
\* Repeat count of the add program
RepeatCount == 100
\* value the validation expects
Expected == 100000
\* enum Program
COPY_TO_IPU == 0
ADD_SOMETHING == 1
MULTIPLY_SOMETHING_NUM_TIMES == 2
SUM == 3
COPY_FROM_IPU == 4

\* INT_MAX, and the limb base of an unsigned
IntMax == 2147483647
Limb == 65536

---------------------------------------------------------------------------
(* unsigned *)

\* an unsigned holding the non-negative int n
U(n) == [hi |-> n \div Limb, lo |-> n % Limb]

\* conversion int -> unsigned (assignment of stoi's result to an unsigned):
\* v mod 2^32
ToUnsigned(v) ==
    IF v >= 0 THEN U(v)
    ELSE LET w == (v + IntMax) + 1   \* v + 2^31, in 0 .. 2^31 - 1
         IN  [hi |-> (w \div Limb) + 32768, lo |-> w % Limb]

\* u < n and u > n for an unsigned u and a small literal n
ULess(u, n) == u.hi = 0 /\ u.lo < n
UGreater(u, n) == u.hi > 0 \/ u.lo > n

\* the value of an unsigned below 2^31 as a number
UVal(u) == u.hi * Limb + u.lo

---------------------------------------------------------------------------
(* std::stoi(s, &pos) *)

DigitVal == [c \in {"0", "1", "2", "3", "4", "5", "6", "7", "8", "9"} |->
               CASE c = "0" -> 0 [] c = "1" -> 1 [] c = "2" -> 2 [] c = "3" -> 3
                 [] c = "4" -> 4 [] c = "5" -> 5 [] c = "6" -> 6 [] c = "7" -> 7
                 [] c = "8" -> 8 [] c = "9" -> 9]

IsSpace(c) == c = " "
IsDigit(c) == c \in DOMAIN DigitVal

\* index of the first character at or after i that is not white space
RECURSIVE SkipSpaces(_, _)
SkipSpaces(s, i) ==
    IF i <= Len(s) /\ IsSpace(s[i]) THEN SkipSpaces(s, i + 1) ELSE i

\* index of the first character at or after i that is not a digit
RECURSIVE ScanDigits(_, _)
ScanDigits(s, i) ==
    IF i <= Len(s) /\ IsDigit(s[i]) THEN ScanDigits(s, i + 1) ELSE i

\* the digits s[i..j-1] accumulated onto acc.v, downwards when neg; acc.ok is
\* FALSE once the value has left the range of int (-2^31 .. 2^31 - 1)
RECURSIVE Accumulate(_, _, _, _, _)
Accumulate(s, i, j, neg, acc) ==
    IF i >= j \/ ~acc.ok THEN acc
    ELSE LET d == DigitVal[s[i]]
             fits == IF neg
                     THEN IF d = 0 THEN acc.v >= 0 - (IntMax \div 10)
                                   ELSE acc.v >= 0 - (((IntMax - d) + 1) \div 10)
                     ELSE acc.v <= (IntMax - d) \div 10
         IN  IF ~fits THEN [ok |-> FALSE, v |-> 0]
             ELSE Accumulate(s, i + 1, j, neg,
                    [ok |-> TRUE,
                     v  |-> IF neg THEN acc.v * 10 - d ELSE acc.v * 10 + d])

\* [kind |-> "ok", value, pos] or the exception thrown
stoi(s) ==
    LET b    == SkipSpaces(s, 1)
        sign == b <= Len(s) /\ s[b] \in {"+", "-"}
        neg  == sign /\ s[b] = "-"
        d0   == IF sign THEN b + 1 ELSE b
        d1   == ScanDigits(s, d0)
        r    == Accumulate(s, d0, d1, neg, [ok |-> TRUE, v |-> 0])
    IN  IF d1 = d0 THEN [kind |-> "invalid_argument", value |-> 0, pos |-> 0]
        ELSE IF ~r.ok THEN [kind |-> "out_of_range", value |-> 0, pos |-> 0]
        ELSE [kind |-> "ok", value |-> r.v, pos |-> d1 - 1]

---------------------------------------------------------------------------
(* The command lines the model runs the program on *)

\* every string of at most n characters of Alphabet
StringsUpTo(n) == UNION {[1..k -> Alphabet] : k \in 0..n}

\* further argument strings: the limits, signs, white space, trailing
\* characters and values outside the range of int
ExtraStrings ==
    { <<"1">>, <<"2">>, <<"4">>, <<"5">>, <<"+", "3">>, <<" ", "3">>, <<"-", "1">>,
      <<"4", "x">>, <<"3", " ">>,
      <<"2", "1", "4", "7", "4", "8", "3", "6", "4", "8">>,
      <<"4", "2", "9", "4", "9", "6", "7", "2", "9", "7">>,
      <<"-", "4", "2", "9", "4", "9", "6", "7", "2", "9", "5">> }

ArgStrings == StringsUpTo(MaxArgLen) \cup ExtraStrings

\* command lines just above the upper limit of the number of tiles per IPU
BoundaryVectors ==
    { << <<"1">>, <<"1", "4", "7", "3">> >>,
      << <<"4">>, <<"1", "4", "7", "3">> >> }

\* argv[1..argc-1] for argc in 1..4
ArgVectors ==
    {<< >>} \cup {<<a>> : a \in ArgStrings}
            \cup {<<a, b>> : a \in ArgStrings, b \in ArgStrings}
            \cup {<<a, b, <<"3">> >> : a \in ArgStrings, b \in ArgStrings}
            \cup BoundaryVectors

argc == Len(argv) + 1

---------------------------------------------------------------------------
(* Output *)

\* one line of output: its text and the two numbers printed in it (0 if none)
Line(text, n, m) == [text |-> text, n |-> n, m |-> m]

Say(text) == Line(text, 0, 0)

---------------------------------------------------------------------------
(* Argument parsing *)

\* "if (pos < s.size())": characters follow the number
TrailingCharacters_Mut(r, s) == FALSE

TrailingCharacters(r, s) == r.pos < Len(s)

\* One of the two parsing blocks of main: the string s parsed into the
\* unsigned that currently holds cur, checked against 1..max.  what is
\* "IPUs" or "tiles".  The result: the variable's new value, whether the
\* program exits, and the line written to std::cerr.
ParseCount(s, cur, max, what) ==
    LET r == stoi(s)
    IN  IF r.kind = "invalid_argument"
        THEN [value |-> cur, exit |-> TRUE, err |-> <<"Invalid number of", what>>]
        ELSE IF r.kind = "out_of_range"
        THEN [value |-> cur, exit |-> TRUE, err |-> <<"Number out of range:", what>>]
        ELSE IF TrailingCharacters(r, s)
        THEN [value |-> ToUnsigned(r.value), exit |-> TRUE,
              err |-> <<"Trailing characters after number of", what>>]
        ELSE IF ULess(ToUnsigned(r.value), 1) \/ UGreater(ToUnsigned(r.value), max)
        THEN [value |-> ToUnsigned(r.value), exit |-> TRUE,
              err |-> <<"Number must be between 1 and max:", what>>]
        ELSE [value |-> ToUnsigned(r.value), exit |-> FALSE, err |-> << >>]

\* the graph before anything is added to it, and main before the Engine
\* is constructed
EmptyGraph ==
    [five |-> 0, ten |-> 0, tensor0 |-> << >>, tensor1 |-> << >>,
     computeSet0 |-> << >>, computeSet1 |-> << >>, computeSet2 |-> << >>,
     input_write |-> 0, output_read |-> 0]

NoEngine ==
    [calls |-> << >>, programs |-> << >>, loaded |-> FALSE,
     input_write |-> "", output_read |-> "",
     tensor0 |-> << >>, tensor1 |-> << >>]

ErrLine(err) == Say(err[1] \o " " \o err[2])

\* the values num_ipus and num_tiles_per_ipu are declared with
DefaultNumIpus == U(1)

DefaultNumTilesPerIpu_Mut == U(1)

DefaultNumTilesPerIpu == U(2)

Init ==
    /\ pc = "parse_ipus"
    /\ argv \in ArgVectors
    /\ num_ipus = DefaultNumIpus
    /\ num_tiles_per_ipu = DefaultNumTilesPerIpu
    /\ hwDevices = << >>
    /\ device = [kind |-> "none", id |-> 0, numIPUs |-> 0, tilesPerIPU |-> 0,
                 numWorkerContexts |-> 0]
    /\ num_workers = 0
    /\ num_tiles = 0
    /\ num_workers_total = 0
    /\ graph = EmptyGraph
    /\ programs = << >>
    /\ buffer_in = << >>
    /\ buffer_out = << >>
    /\ engine = NoEngine
    /\ out = << >>
    /\ status = 0

\* main, "Get the number of IPUs."
ParseNumIpus ==
    /\ pc = "parse_ipus"
    /\ IF argc > 1
       THEN LET r == ParseCount(argv[1], num_ipus, MaxIpus, "IPUs")
            IN  /\ num_ipus' = r.value
                /\ IF r.exit
                   THEN /\ out' = Append(out, ErrLine(r.err))
                        /\ status' = -1
                        /\ pc' = "exited"
                   ELSE /\ pc' = "parse_tiles"
                        /\ UNCHANGED <<out, status>>
       ELSE /\ pc' = "parse_tiles"
            /\ UNCHANGED <<num_ipus, out, status>>
    /\ UNCHANGED <<argv, num_tiles_per_ipu, hwDevices, device, num_workers,
                   num_tiles, num_workers_total, graph, programs, buffer_in,
                   buffer_out, engine>>

\* main, "Get the number of tiles per IPU."
ParseNumTiles ==
    /\ pc = "parse_tiles"
    /\ IF argc > 2
       THEN LET r == ParseCount(argv[2], num_tiles_per_ipu, MaxTilesPerIpu, "tiles")
            IN  /\ num_tiles_per_ipu' = r.value
                /\ IF r.exit
                   THEN /\ out' = Append(out, ErrLine(r.err))
                        /\ status' = -1
                        /\ pc' = "exited"
                   ELSE /\ pc' = "get_devices"
                        /\ UNCHANGED <<out, status>>
       ELSE /\ pc' = "get_devices"
            /\ UNCHANGED <<num_tiles_per_ipu, out, status>>
    /\ UNCHANGED <<argv, num_ipus, hwDevices, device, num_workers,
                   num_tiles, num_workers_total, graph, programs, buffer_in,
                   buffer_out, engine>>

---------------------------------------------------------------------------
(* Device acquisition *)

\* the lists of devices the device manager may return: for each device,
\* whether attach() succeeds
DeviceLists == UNION {[1..k -> BOOLEAN] : k \in 0..MaxDevices}

\* setIpuDevice's loop: the index of the first device that attaches, 0 if
\* none does (the function then throws)
RECURSIVE FirstAttached(_, _)
FirstAttached(devs, i) ==
    IF i > Len(devs) THEN 0
    ELSE IF devs[i] THEN i
    ELSE FirstAttached(devs, i + 1)

\* a hardware device of n IPUs, and the device an IPUModel creates
HwDevice(id, n, w) ==
    [kind |-> "IPU", id |-> id, numIPUs |-> n, tilesPerIPU |-> TilesPerIPU,
     numWorkerContexts |-> w]

ModelDevice(w) ==
    [kind |-> "IPUModel", id |-> 0, numIPUs |-> 1, tilesPerIPU |-> TilesPerIPU,
     numWorkerContexts |-> w]

FallbackIpus_Mut == num_ipus

\* the value main assigns to num_ipus in the catch block
FallbackIpus == U(1)

\* main's catch (...) block
Fallback(w) ==
    /\ out' = out \o << Line("Unable to connect to a device with IPUs", UVal(num_ipus), 0),
                        Line("Using an IPUModel with 1 IPU and tiles per IPU",
                             UVal(num_tiles_per_ipu), 0),
                        Say("Ignore timing statistics.") >>
    /\ num_ipus' = FallbackIpus
    /\ device' = ModelDevice(w)

\* setIpuDevice, up to the loop: the device manager returns the devices with
\* the requested number of IPUs
GetDevices ==
    /\ pc = "get_devices"
    /\ \E devs \in DeviceLists : hwDevices' = devs
    /\ pc' = "attach"
    /\ UNCHANGED <<argv, num_ipus, num_tiles_per_ipu, device, num_workers, num_tiles,
                   num_workers_total, graph, programs, buffer_in, buffer_out,
                   engine, out, status>>

\* createDeviceManager or getDevices throws: main's catch block runs
GetDevicesThrows ==
    /\ pc = "get_devices"
    /\ \E w \in 1..MaxWorkers : Fallback(w)
    /\ pc' = "build_graph"
    /\ UNCHANGED <<argv, num_tiles_per_ipu, hwDevices, num_workers, num_tiles,
                   num_workers_total, graph, programs, buffer_in, buffer_out,
                   engine, status>>

\* setIpuDevice's loop and return or throw, and the rest of main's try block
\* or its catch block
AttachDevice ==
    /\ pc = "attach"
    /\ \E w \in 1..MaxWorkers :
         LET i == FirstAttached(hwDevices, 1)
         IN  IF i > 0
             THEN /\ device' = HwDevice(i, UVal(num_ipus), w)
                  /\ out' = Append(out, Line("Using IPUs and tiles per IPU",
                                             UVal(num_ipus), UVal(num_tiles_per_ipu)))
                  /\ UNCHANGED num_ipus
             ELSE Fallback(w)
    /\ hwDevices' = << >>
    /\ pc' = "build_graph"
    /\ UNCHANGED <<argv, num_tiles_per_ipu, num_workers, num_tiles,
                   num_workers_total, graph, programs, buffer_in, buffer_out,
                   engine, status>>

---------------------------------------------------------------------------
(* Graph construction *)

\* num_tiles and num_workers_total
NumTiles(n, m) == n * m

WorkersTotal_Mut(n, m, w) == n * m

WorkersTotal(n, m, w) == n * m * w

TileOf_Mut(i, w) == i % w

\* "Work out the tile index.": std::floor(i / num_workers), i and
\* num_workers unsigned
TileOf(i, w) == i \div w

\* the vertices the loop adds to computeSet0, computeSet1 and computeSet2:
\* for each i, the codelet, the tensors its fields are connected to (an
\* element of tensor0, a row of tensor1) and the tile it is mapped to
Vertices0(total, w) ==
    [i \in 0..(total - 1) |->
        [codelet |-> "AddSomething", something |-> "five", input_output |-> i,
         tile |-> TileOf(i, w)]]

Vertices1(total, w) ==
    [i \in 0..(total - 1) |->
        [codelet |-> "MultiplySomethingNumTimes", something |-> "ten",
         input |-> i, output |-> i, tile |-> TileOf(i, w)]]

Vertices2(total, w) ==
    [i \in 0..(total - 1) |->
        [codelet |-> "Sum", input |-> i, output |-> i, tile |-> TileOf(i, w)]]

\* main from "Store the number of hardware workers per tile" to the end of
\* the vertex loop
BuildGraph ==
    /\ pc = "build_graph"
    /\ LET w     == device.numWorkerContexts
           total == WorkersTotal(UVal(num_ipus), UVal(num_tiles_per_ipu), w)
       IN  /\ num_workers' = w
           /\ num_tiles' = NumTiles(UVal(num_ipus), UVal(num_tiles_per_ipu))
           /\ num_workers_total' = total
           /\ graph' = [graph EXCEPT
                  !.five = Five,
                  !.ten = Ten,
                  !.tensor0 = <<total>>,
                  !.tensor1 = <<total, NumColumns>>,
                  !.computeSet0 = Vertices0(total, w),
                  !.computeSet1 = Vertices1(total, w),
                  !.computeSet2 = Vertices2(total, w)]
    /\ pc' = "build_programs"
    /\ UNCHANGED <<argv, num_ipus, num_tiles_per_ipu, hwDevices, device, programs,
                   buffer_in, buffer_out, engine, out, status>>

---------------------------------------------------------------------------
(* Programs *)

copy_input == [op |-> "Copy", src |-> "input_write", dst |-> "tensor0"]

copy_output == [op |-> "Copy", src |-> "tensor0", dst |-> "output_read"]

Execute(cs) == [op |-> "Execute", cs |-> cs]

add_sequence ==
    [op |-> "Sequence",
     body |-> << [op |-> "Repeat", count |-> RepeatCount,
                  body |-> Execute("computeSet0")] >>]

Programs_Mut ==
    << copy_input, add_sequence, Execute("computeSet2"), Execute("computeSet1"),
       copy_output >>

\* the vector after the five push_back calls
Programs ==
    << copy_input, add_sequence, Execute("computeSet1"), Execute("computeSet2"),
       copy_output >>

\* std::vector<int>(n): n value-initialised ints
ZeroBuffer(n) == [i \in 0..(n - 1) |-> 0]

\* main from "Create a vector to store our programs" to the std::fill
BuildPrograms ==
    /\ pc = "build_programs"
    /\ graph' = [graph EXCEPT !.input_write = num_workers_total,
                              !.output_read = num_workers_total]
    /\ programs' = Programs
    /\ buffer_in' = ZeroBuffer(num_workers_total)
    /\ buffer_out' = ZeroBuffer(num_workers_total)
    /\ pc' = "compile"
    /\ UNCHANGED <<argv, num_ipus, num_tiles_per_ipu, hwDevices, device, num_workers,
                   num_tiles, num_workers_total, engine, out, status>>

---------------------------------------------------------------------------
(* Codelets *)

AddSomething_Mut(input_output, something) == something

\* AddSomething::compute: *input_output = input_output + something
AddSomething(input_output, something) == input_output + something

\* MultiplySomethingNumTimes: the input multiplied by the constant, written
\* to every one of the len outputs
MultiplySomethingNumTimes(input, something, len) ==
    [j \in 0..(len - 1) |-> input * something]

\* Sum: the sum of the items of the input
RECURSIVE SumFrom(_, _)
SumFrom(input, j) ==
    IF j \notin DOMAIN input THEN 0 ELSE input[j] + SumFrom(input, j + 1)

Sum(input) == SumFrom(input, 0)

---------------------------------------------------------------------------
(* The engine *)

\* what device memory may hold before anything is written to it
UninitValues == {0, -1}

\* the value of a constant tensor of the graph
ConstValue(g, name) == IF name = "five" THEN g.five ELSE g.ten

\* the vertex of the compute set vs whose field is connected to element (or
\* row) e, -1 if there is none; main connects vertex i to element i
VertexOn(vs, field, e) ==
    IF e \in DOMAIN vs /\ vs[e][field] = e THEN e
    ELSE IF \E k \in DOMAIN vs : vs[k][field] = e
         THEN CHOOSE k \in DOMAIN vs : vs[k][field] = e
         ELSE -1

\* one execution of a compute set: every vertex runs its codelet once on
\* the tensors it is connected to.  mem is [tensor0, tensor1, buffer_out].
ExecuteSet(g, vs, mem) ==
    IF vs = << >> THEN mem
    ELSE IF vs[0].codelet = "AddSomething"
    THEN [mem EXCEPT !.tensor0 =
            [e \in DOMAIN mem.tensor0 |->
                LET k == VertexOn(vs, "input_output", e)
                IN  IF k = -1 THEN mem.tensor0[e]
                    ELSE AddSomething(mem.tensor0[e], ConstValue(g, vs[k].something))]]
    ELSE IF vs[0].codelet = "MultiplySomethingNumTimes"
    THEN [mem EXCEPT !.tensor1 =
            [r \in DOMAIN mem.tensor1 |->
                LET k == VertexOn(vs, "output", r)
                IN  IF k = -1 THEN mem.tensor1[r]
                    ELSE MultiplySomethingNumTimes(mem.tensor0[vs[k].input],
                             ConstValue(g, vs[k].something), g.tensor1[2])]]
    ELSE [mem EXCEPT !.tensor0 =
            [e \in DOMAIN mem.tensor0 |->
                LET k == VertexOn(vs, "output", e)
                IN  IF k = -1 THEN mem.tensor0[e]
                    ELSE Sum(mem.tensor1[vs[k].input])]]

\* a stream copy: count elements between tensor0 and the host buffer the
\* stream is connected to
CopyStream(g, e, host, p, mem) ==
    IF p.src = "input_write"
    THEN [mem EXCEPT !.tensor0 =
            [i \in DOMAIN mem.tensor0 |->
                IF i < g.input_write THEN host[e.input_write][i]
                ELSE mem.tensor0[i]]]
    ELSE [mem EXCEPT !.buffer_out =
            [i \in DOMAIN mem.buffer_out |->
                IF i < g.output_read THEN mem.tensor0[i]
                ELSE mem.buffer_out[i]]]

\* the effect of a program on the memory
RECURSIVE RunProgram(_, _, _, _, _)
RECURSIVE RunRepeat(_, _, _, _, _, _)
RECURSIVE RunSequence(_, _, _, _, _, _)
RunProgram(g, e, host, p, mem) ==
    CASE p.op = "Copy"     -> CopyStream(g, e, host, p, mem)
      [] p.op = "Execute"  -> ExecuteSet(g, g[p.cs], mem)
      [] p.op = "Repeat"   -> RunRepeat(g, e, host, p.body, p.count, mem)
      [] p.op = "Sequence" -> RunSequence(g, e, host, p.body, 1, mem)

\* count runs of the body, one after the other: the first count \div 2 of
\* them, then the rest.  (Comparing the memory the first runs leave with
\* the memory they found makes TLC compute it before it goes on.)
RunRepeat(g, e, host, body, count, mem) ==
    IF count = 0 THEN mem
    ELSE IF count = 1 THEN RunProgram(g, e, host, body, mem)
    ELSE LET half == RunRepeat(g, e, host, body, count \div 2, mem)
         IN  IF half = mem
             THEN RunRepeat(g, e, host, body, count - (count \div 2), mem)
             ELSE RunRepeat(g, e, host, body, count - (count \div 2), half)

RunSequence(g, e, host, body, i, mem) ==
    IF i > Len(body) THEN mem
    ELSE RunSequence(g, e, host, body, i + 1, RunProgram(g, e, host, body[i], mem))

\* a printable name of a program of the vector
Describe(p) ==
    CASE p.op = "Copy"     -> "Copy " \o p.src \o " -> " \o p.dst
      [] p.op = "Execute"  -> "Execute " \o p.cs
      [] p.op = "Repeat"   -> "Repeat"
      [] p.op = "Sequence" ->
           IF Len(p.body) = 1 /\ p.body[1].op = "Repeat"
              /\ p.body[1].body.op = "Execute"
           THEN "Repeat " \o p.body[1].body.cs
           ELSE "Sequence"

Call(what, arg) == [call |-> what, arg |-> arg]

\* poplar::Engine engine(graph, programs)
Compile ==
    /\ pc = "compile"
    /\ out' = Append(out, Say("Compiling graph program..."))
    /\ engine' = [engine EXCEPT !.programs = programs,
                                !.calls = Append(@, Call("Engine", ""))]
    /\ pc' = "load"
    /\ UNCHANGED <<argv, num_ipus, num_tiles_per_ipu, hwDevices, device, num_workers,
                   num_tiles, num_workers_total, graph, programs, buffer_in,
                   buffer_out, status>>

\* engine.load(device): the tensors get their device memory
Load ==
    /\ pc = "load"
    /\ out' = Append(out, Say("Loading program on device..."))
    /\ \E u \in UninitValues :
         engine' = [engine EXCEPT
            !.loaded = TRUE,
            !.tensor0 = [i \in 0..(graph.tensor0[1] - 1) |-> u],
            !.tensor1 = [i \in 0..(graph.tensor1[1] - 1) |->
                            [j \in 0..(graph.tensor1[2] - 1) |-> u]],
            !.calls = Append(@, Call("load", ""))]
    /\ pc' = "connect"
    /\ UNCHANGED <<argv, num_ipus, num_tiles_per_ipu, hwDevices, device, num_workers,
                   num_tiles, num_workers_total, graph, programs, buffer_in,
                   buffer_out, status>>

\* the two engine.connectStream calls
ConnectStreams ==
    /\ pc = "connect"
    /\ engine' = [engine EXCEPT
            !.input_write = "buffer_in",
            !.output_read = "buffer_out",
            !.calls = @ \o << Call("connectStream", "input_write"),
                              Call("connectStream", "output_read") >>]
    /\ pc' = "run_copy_to_ipu"
    /\ UNCHANGED <<argv, num_ipus, num_tiles_per_ipu, hwDevices, device, num_workers,
                   num_tiles, num_workers_total, graph, programs, buffer_in,
                   buffer_out, out, status>>

\* engine.run(index): the program at that index of the vector the engine
\* was compiled from runs on the device
EngineRun(index) ==
    LET p   == engine.programs[index + 1]
        mem == RunProgram(graph, engine,
                          [buffer_in |-> buffer_in, buffer_out |-> buffer_out], p,
                          [tensor0 |-> engine.tensor0, tensor1 |-> engine.tensor1,
                           buffer_out |-> buffer_out])
    IN  /\ engine' = [engine EXCEPT !.tensor0 = mem.tensor0,
                                    !.tensor1 = mem.tensor1,
                                    !.calls = Append(@, Call("run", Describe(p)))]
        /\ buffer_out' = mem.buffer_out

\* one of the five timed engine.run calls of main
RunStep(here, text, index, next) ==
    /\ pc = here
    /\ out' = Append(out, Say(text))
    /\ EngineRun(index)
    /\ pc' = next
    /\ UNCHANGED <<argv, num_ipus, num_tiles_per_ipu, hwDevices, device, num_workers,
                   num_tiles, num_workers_total, graph, programs, buffer_in, status>>

RunCopyToIpu ==
    RunStep("run_copy_to_ipu", "Copying input data to IPU...", COPY_TO_IPU, "run_add")

RunAdd ==
    RunStep("run_add", "Running repeat add program...", ADD_SOMETHING, "run_multiply")

RunMultiply ==
    RunStep("run_multiply", "Running multiply / clone program...",
            MULTIPLY_SOMETHING_NUM_TIMES, "run_sum")

RunSum ==
    RunStep("run_sum", "Running sum program...", SUM, "run_copy_from_ipu")

RunCopyFromIpu ==
    RunStep("run_copy_from_ipu", "Copying ouput data from IPU...", COPY_FROM_IPU,
            "validate")

\* the validation loop: the assert aborts the process at the first element
\* that is not the expected value
Validate ==
    /\ pc = "validate"
    /\ IF \A i \in DOMAIN buffer_out : buffer_out[i] = Expected
       THEN /\ out' = out \o << Say("Validating output..."), Say("Done!") >>
            /\ status' = 0
            /\ pc' = "done"
       ELSE /\ out' = Append(out, Say("Validating output..."))
            /\ status' = 134
            /\ pc' = "aborted"
    /\ UNCHANGED <<argv, num_ipus, num_tiles_per_ipu, hwDevices, device, num_workers,
                   num_tiles, num_workers_total, graph, programs, buffer_in,
                   buffer_out, engine>>

Next ==
    \/ ParseNumIpus
    \/ ParseNumTiles
    \/ GetDevices
    \/ GetDevicesThrows
    \/ AttachDevice
    \/ BuildGraph
    \/ BuildPrograms
    \/ Compile
    \/ Load
    \/ ConnectStreams
    \/ RunCopyToIpu
    \/ RunAdd
    \/ RunMultiply
    \/ RunSum
    \/ RunCopyFromIpu
    \/ Validate

Spec == Init /\ [][Next]_vars

---------------------------------------------------------------------------
(* What the claims speak of *)

\* the program has passed argument parsing (it is at device acquisition or
\* beyond)
PastParsing == pc \notin {"parse_ipus", "parse_tiles", "exited"}

\* a device has been acquired and the graph's vertices exist
GraphBuilt == pc \notin {"parse_ipus", "parse_tiles", "exited", "get_devices",
                         "attach", "build_graph"}

\* the streams, programs and host buffers exist
ProgramsBuilt == GraphBuilt /\ pc # "build_programs"

\* s without its longest prefix of characters of cs
RECURSIVE DropLeading(_, _)
DropLeading(s, cs) ==
    IF s # << >> /\ Head(s) \in cs THEN DropLeading(Tail(s), cs) ELSE s

\* the parts of an argument read as a decimal number: white space, a sign,
\* digits
Unsigned(s) ==
    LET t == DropLeading(s, {" "})
    IN  IF t # << >> /\ Head(t) \in {"+", "-"} THEN Tail(t) ELSE t

IsNegative(s) ==
    LET t == DropLeading(s, {" "}) IN t # << >> /\ Head(t) = "-"

\* the number a string of digits denotes, digit by digit from the right
RECURSIVE Denotes(_)
Denotes(ds) ==
    IF ds = << >> THEN 0
    ELSE DigitVal[ds[Len(ds)]] + 10 * Denotes(SubSeq(ds, 1, Len(ds) - 1))

\* s is, in full, a decimal integer in 1..max (max below 10000)
CompleteInRange(s, max) ==
    LET ds  == Unsigned(s)
        sig == DropLeading(ds, {"0"})
    IN  /\ ds # << >>
        /\ \A i \in 1..Len(ds) : ds[i] \in DOMAIN DigitVal
        /\ ~IsNegative(s)
        /\ Len(sig) \in 1..4
        /\ Denotes(sig) \in 1..max

\* the number such an argument denotes
ArgValue(s) == Denotes(DropLeading(Unsigned(s), {"0"}))

\* the last line written
LastLine == out[Len(out)]

---------------------------------------------------------------------------
(* C1 *)

\* C1: for every accepted configuration, hardware or IPUModel, the run from
\* the zeroed input buffer through the five programs leaves 100000 in every
\* element of buffer_out: the validation never aborts, and the program ends
\* with "Done!" and status 0.
C1_OutputIs100000 ==
    /\ pc # "aborted"
    /\ pc \in {"validate", "done"} =>
          /\ DOMAIN buffer_out = 0..(num_workers_total - 1)
          /\ \A i \in DOMAIN buffer_out : buffer_out[i] = 100000
    /\ pc = "done" => LastLine = Say("Done!") /\ status = 0

C1_Witness ==
    /\ pc = "done"
    /\ device.kind = "IPU"
    /\ UVal(num_ipus) = 4
    /\ num_workers = MaxWorkers
    /\ buffer_out[num_workers_total - 1] = 100000

---------------------------------------------------------------------------
(* C2 *)

\* C2: the program is past argument parsing only if every supplied numeric
\* argument is, in full, an integer in its range (argv[1] in 1..4, argv[2]
\* in 1..1472); with any other argument it never acquires a device or
\* builds a graph, and when it has exited its status is -1.
C2_BadArgumentExits ==
    LET good1 == argc > 1 => CompleteInRange(argv[1], 4)
        good2 == argc > 2 => CompleteInRange(argv[2], 1472)
    IN  /\ PastParsing => good1 /\ good2
        /\ ~(good1 /\ good2) =>
              /\ device.kind = "none"
              /\ hwDevices = << >>
              /\ graph = EmptyGraph
              /\ engine = NoEngine
        /\ pc = "exited" => status = -1 /\ ~(good1 /\ good2)

C2_Witness ==
    /\ pc = "exited"
    /\ status = -1
    /\ argv = << <<"1">>, <<"1", "4", "7", "3">> >>
    /\ device.kind = "none"

---------------------------------------------------------------------------
(* C3 *)

\* C3: when device acquisition begins, num_ipus is 1 and num_tiles_per_ipu
\* is 2 if no argument was given; with only the first argument given,
\* num_tiles_per_ipu is 2 and num_ipus is the argument's value; with more
\* arguments the two values are those of the first two arguments, whatever
\* follows them.  num_tiles_per_ipu never changes afterwards.
C3_Defaults ==
    /\ pc \in {"get_devices", "attach"} =>
          /\ UVal(num_ipus) = IF argc > 1 THEN ArgValue(argv[1]) ELSE 1
          /\ UVal(num_tiles_per_ipu) = IF argc > 2 THEN ArgValue(argv[2]) ELSE 2
    /\ PastParsing =>
          UVal(num_tiles_per_ipu) = IF argc > 2 THEN ArgValue(argv[2]) ELSE 2
    /\ PastParsing /\ argc = 1 => UVal(num_ipus) = 1

C3_Witness ==
    /\ pc = "attach"
    /\ argc = 2
    /\ UVal(num_ipus) = 4
    /\ UVal(num_tiles_per_ipu) = 2

---------------------------------------------------------------------------
(* C4 *)

\* C4: when no device with the requested number of IPUs attaches (none is
\* found, none attaches, or the device manager throws) the program does not
\* exit: num_ipus becomes 1, num_tiles_per_ipu is kept, the device is an
\* IPUModel, and no later step exits or aborts, changes the three, or ends
\* other than with "Done!".  When a device attaches, num_ipus is kept and
\* the device is the first of the list that attaches.
C4_Fallback ==
       [][ /\ pc = "attach" =>
                /\ pc' = "build_graph"
                /\ num_tiles_per_ipu' = num_tiles_per_ipu
                /\ IF \E i \in DOMAIN hwDevices : hwDevices[i]
                   THEN /\ device'.kind = "IPU"
                        /\ device'.id \in DOMAIN hwDevices
                        /\ hwDevices[device'.id]
                        /\ \A j \in 1..(device'.id - 1) : ~hwDevices[j]
                        /\ device'.numIPUs = UVal(num_ipus)
                        /\ num_ipus' = num_ipus
                   ELSE /\ device'.kind = "IPUModel"
                        /\ UVal(num_ipus') = 1
           /\ pc = "get_devices" /\ pc' # "attach" =>
                /\ pc' = "build_graph"
                /\ num_tiles_per_ipu' = num_tiles_per_ipu
                /\ device'.kind = "IPUModel"
                /\ UVal(num_ipus') = 1
           /\ device.kind = "IPUModel" =>
                /\ pc' \notin {"exited", "aborted"}
                /\ UNCHANGED <<num_ipus, num_tiles_per_ipu, device>>
           /\ device'.kind = "IPUModel" /\ pc' = "done" => LastLine' = Say("Done!")
         ]_vars

C4_Witness ==
    /\ pc = "done"
    /\ device.kind = "IPUModel"
    /\ argc > 2
    /\ argv[1] = <<"4">>
    /\ UVal(num_ipus) = 1
    /\ UVal(num_tiles_per_ipu) = ArgValue(argv[2])
    /\ UVal(num_tiles_per_ipu) = 5

---------------------------------------------------------------------------
(* C5 *)

\* the tiles the vertices of a compute set are mapped to
TilesUsed(cs) == {graph[cs][i].tile : i \in DOMAIN graph[cs]}

ComputeSets == {"computeSet0", "computeSet1", "computeSet2"}

\* C5: on a device whose IPUs have 1472 tiles each, the vertices of every
\* compute set are on exactly num_tiles_per_ipu tiles of each of the
\* num_ipus IPUs (tile t is on IPU t div 1472).
C5_TilesOnEveryIpu ==
    GraphBuilt =>
        \A cs \in ComputeSets : \A ipu \in 0..(UVal(num_ipus) - 1) :
            Cardinality({t \in TilesUsed(cs) : t \div TilesPerIPU = ipu})
                = UVal(num_tiles_per_ipu)

---------------------------------------------------------------------------
(* C6 *)

---------------------------------------------------------------------------
(* C7 *)

\* C7: once the vertex loop has run, every vertex i of each compute set is
\* mapped to a tile in 0..num_ipus*num_tiles_per_ipu-1, and each of these
\* tiles holds exactly num_workers vertices of each compute set.  The count
\* is stated by slots: a compute set has tiles * num_workers vertices, and
\* the pairs <<tile of vertex i, i mod num_workers>> are as many, so every
\* tile has a vertex in each of its num_workers slots and no further one.
C7_WorkersPerTile ==
    GraphBuilt =>
        LET tiles   == UVal(num_ipus) * UVal(num_tiles_per_ipu)
            workers == device.numWorkerContexts
        IN  \A cs \in ComputeSets :
              /\ \A i \in DOMAIN graph[cs] : graph[cs][i].tile \in 0..(tiles - 1)
              /\ Cardinality(DOMAIN graph[cs]) = tiles * workers
              /\ Cardinality({<<graph[cs][i].tile, i % workers>> :
                                 i \in DOMAIN graph[cs]}) = tiles * workers

C7_Witness ==
    /\ pc = "build_programs"
    /\ device.kind = "IPU"
    /\ UVal(num_ipus) = 4
    /\ UVal(num_tiles_per_ipu) = 5
    /\ device.numWorkerContexts = 2
    /\ graph.computeSet0[39].tile = 19
    /\ graph.computeSet2[38].tile = 19

---------------------------------------------------------------------------
(* C8 *)

\* the calls main makes on the engine, in order
ExpectedCalls ==
    << Call("Engine", ""), Call("load", ""),
       Call("connectStream", "input_write"), Call("connectStream", "output_read"),
       Call("run", "Copy input_write -> tensor0"),
       Call("run", "Repeat computeSet0"),
       Call("run", "Execute computeSet1"),
       Call("run", "Execute computeSet2"),
       Call("run", "Copy tensor0 -> output_read") >>

\* C8: the calls made on the engine are at every moment a prefix of:
\* compile, load, connect both streams, run the input copy, the repeated
\* add, the multiply, the sum, the output copy; all of them have been made,
\* once each, when validation starts; and each Program enum value is the
\* index in the programs vector of the program it names.
C8_PhaseOrder ==
    /\ Len(engine.calls) <= Len(ExpectedCalls)
    /\ engine.calls = SubSeq(ExpectedCalls, 1, Len(engine.calls))
    /\ pc \in {"validate", "done", "aborted"} => engine.calls = ExpectedCalls
    /\ pc \in {"parse_ipus", "parse_tiles", "exited", "get_devices", "attach",
               "build_graph", "build_programs", "compile"} => engine.calls = << >>
    /\ ProgramsBuilt =>
          /\ Len(programs) = 5
          /\ programs[COPY_TO_IPU + 1] = copy_input
          /\ Describe(programs[ADD_SOMETHING + 1]) = "Repeat computeSet0"
          /\ programs[ADD_SOMETHING + 1].body[1].count = 100
          /\ programs[MULTIPLY_SOMETHING_NUM_TIMES + 1] = Execute("computeSet1")
          /\ programs[SUM + 1] = Execute("computeSet2")
          /\ programs[COPY_FROM_IPU + 1] = copy_output
          /\ \A i \in DOMAIN graph.computeSet0 :
                /\ graph.computeSet0[i].codelet = "AddSomething"
                /\ graph.computeSet1[i].codelet = "MultiplySomethingNumTimes"
                /\ graph.computeSet2[i].codelet = "Sum"

C8_Witness ==
    /\ pc = "validate"
    /\ engine.calls = ExpectedCalls
    /\ Len(out) = 8

===========================================================================
